---- MODULE Spec2Model ----
(***************************************************************************)
(* A model of the GraphQL HTTP handler: NewRequestOptions (the resolution  *)
(* of an http.Request into RequestOptions), Handler.ContextHandler (the    *)
(* execution, console-or-JSON decision, rendering and result callback),    *)
(* renderGraphiQL and New.                                                 *)
(*                                                                         *)
(* Strings that the code only compares or copies (query texts, operation   *)
(* names, titles) are TLA+ strings.  Header values, which the code splits  *)
(* and searches, are sequences of atoms: the header value is the           *)
(* concatenation of its atoms, ";" is an atom of its own, and no media     *)
(* type the code looks for is spread over two atoms.  JSON texts are       *)
(* strings whose syntax tree is given by JSONSyntax.                       *)
(*                                                                         *)
(* One request is followed through ContextHandler, step by step; New runs  *)
(* between any two steps.  Requests served at the same time share nothing  *)
(* but the handler, which they only read, and Title, which they only read, *)
(* so each of them behaves as the one followed here.                       *)
(***************************************************************************)
EXTENDS Integers, Sequences, FiniteSets, TLC

VARIABLES
    Title,      \* the package-level variable Title, bytes and length
    handlers,   \* the handlers constructed so far, in construction order
    served,     \* the request followed through ContextHandler: how far it
                \* is and everything done for it so far
    panicked,   \* New panicked and nothing recovered: the process is gone
    request,    \* the request given to NewRequestOptions on its own
    resolved    \* what NewRequestOptions returned for it

vars == <<Title, handlers, served, panicked, request, resolved>>

\* ------------------------------------------------------------------ bounds

MaxHandlers == 2
MaxErrors == 2

\* --------------------------------------------------------------- constants

ContentTypeJSON == "application/json"
ContentTypeGraphQL == "application/graphql"
ContentTypeFormURLEncoded == "application/x-www-form-urlencoded"
ContentTypeMultipartFormData == "multipart/form-data"
MethodPost == "POST"
DefaultTitle == "GraphQL Playground"

\* ------------------------------------------------------------ encoding/json

\* A JSON syntax tree: t is the kind, s the text of a string or number, m the
\* members of an object in source order.  The key of a member is the
\* sequence of its characters, escapes resolved; a character outside ASCII
\* is written as its code point, "U+017F".
JInvalid == [t |-> "invalid", s |-> "", m |-> <<>>]
JNull == [t |-> "null", s |-> "", m |-> <<>>]
JString(s) == [t |-> "string", s |-> s, m |-> <<>>]
JNumber(s) == [t |-> "number", s |-> s, m |-> <<>>]
JArray(s) == [t |-> "array", s |-> s, m |-> <<>>]
JObject(m) == [t |-> "object", s |-> "", m |-> m]
Member(k, v) == [k |-> k, v |-> v]

\* The form-field texts used for `variables`.
VarsX == "{\"x\":1}"
VarsY == "{\"y\":\"two\"}"
VarsCut == "{\"x\":"
VarsNull == "null"
VarsArray == "[1]"
VarsString == "\"x\""

\* The request bodies.
BodyFull == "{\"query\":\"{b}\",\"variables\":{\"y\":\"two\"},\"operationName\":\"opB\"}"
BodyQueryOnly == "{\"query\":\"{b}\"}"
BodyNumberQuery == "{\"query\":7,\"operationName\":\"opB\"}"
BodyStringVars == "{\"query\":\"{b}\",\"variables\":\"oops\"}"
BodyNullFields == "{\"query\":null,\"variables\":null,\"operationName\":\"opB\"}"
BodyCut == "{\"query\":\"{b}\""
BodyEmptyObject == "{}"
BodyOtherCase == "{\"Query\":\"{b}\",\"OPERATIONNAME\":\"opB\",\"Variables\":{}}"
BodyTwoQueries == "{\"query\":7,\"Query\":\"{b}\"}"
BodyUnknownKey == "{\"q\":\"{b}\"}"
BodyMixedCase == "{\"query\":\"{b}\",\"OperationName\":\"opB\"}"
BodyOddCase == "{\"qUERY\":7,\"variableS\":{\"x\":1},\"operationNAME\":\"opB\"}"
BodyLongS == "{\"queRy\":\"{b}\",\"variable\\u017F\":{\"x\":1}}"
BodyNearMiss == "{\"queries\":\"{b}\",\"operation_name\":\"opB\",\"variable\":{}}"

\* What the JSON scanner makes of each text the model uses.
JSONSyntax ==
    ("" :> JInvalid)
    @@ ("{a}" :> JInvalid)
    @@ ("{b}" :> JInvalid)
    @@ (VarsX :> JObject(<<Member(<<"x">>, JNumber("1"))>>))
    @@ (VarsY :> JObject(<<Member(<<"y">>, JString("two"))>>))
    @@ (VarsCut :> JInvalid)
    @@ (VarsNull :> JNull)
    @@ (VarsArray :> JArray("[1]"))
    @@ (VarsString :> JString("x"))
    @@ (BodyFull :> JObject(<<Member(<<"q", "u", "e", "r", "y">>, JString("{b}")),
                              Member(<<"v", "a", "r", "i", "a", "b", "l", "e", "s">>, JObject(<<Member(<<"y">>, JString("two"))>>)),
                              Member(<<"o", "p", "e", "r", "a", "t", "i", "o", "n", "N", "a", "m", "e">>, JString("opB"))>>))
    @@ (BodyQueryOnly :> JObject(<<Member(<<"q", "u", "e", "r", "y">>, JString("{b}"))>>))
    @@ (BodyNumberQuery :> JObject(<<Member(<<"q", "u", "e", "r", "y">>, JNumber("7")),
                                     Member(<<"o", "p", "e", "r", "a", "t", "i", "o", "n", "N", "a", "m", "e">>, JString("opB"))>>))
    @@ (BodyStringVars :> JObject(<<Member(<<"q", "u", "e", "r", "y">>, JString("{b}")),
                                    Member(<<"v", "a", "r", "i", "a", "b", "l", "e", "s">>, JString("oops"))>>))
    @@ (BodyNullFields :> JObject(<<Member(<<"q", "u", "e", "r", "y">>, JNull),
                                    Member(<<"v", "a", "r", "i", "a", "b", "l", "e", "s">>, JNull),
                                    Member(<<"o", "p", "e", "r", "a", "t", "i", "o", "n", "N", "a", "m", "e">>, JString("opB"))>>))
    @@ (BodyCut :> JInvalid)
    @@ (BodyEmptyObject :> JObject(<<>>))
    @@ (BodyOtherCase :> JObject(<<Member(<<"Q", "u", "e", "r", "y">>, JString("{b}")),
                                   Member(<<"O", "P", "E", "R", "A", "T", "I", "O", "N", "N", "A", "M", "E">>, JString("opB")),
                                   Member(<<"V", "a", "r", "i", "a", "b", "l", "e", "s">>, JObject(<<>>))>>))
    @@ (BodyTwoQueries :> JObject(<<Member(<<"q", "u", "e", "r", "y">>, JNumber("7")),
                                    Member(<<"Q", "u", "e", "r", "y">>, JString("{b}"))>>))
    @@ (BodyUnknownKey :> JObject(<<Member(<<"q">>, JString("{b}"))>>))
    @@ (BodyMixedCase :> JObject(<<Member(<<"q", "u", "e", "r", "y">>, JString("{b}")),
                                   Member(<<"O", "p", "e", "r", "a", "t", "i", "o", "n", "N", "a", "m", "e">>, JString("opB"))>>))
    @@ (BodyOddCase :> JObject(<<Member(<<"q", "U", "E", "R", "Y">>, JNumber("7")),
                                 Member(<<"v", "a", "r", "i", "a", "b", "l", "e", "S">>,
                                        JObject(<<Member(<<"x">>, JNumber("1"))>>)),
                                 Member(<<"o", "p", "e", "r", "a", "t", "i", "o", "n", "N", "A", "M", "E">>, JString("opB"))>>))
    @@ (BodyLongS :> JObject(<<Member(<<"q", "u", "e", "R", "y">>, JString("{b}")),
                               Member(<<"v", "a", "r", "i", "a", "b", "l", "e", "U+017F">>,
                                      JObject(<<Member(<<"x">>, JNumber("1"))>>))>>))
    @@ (BodyNearMiss :> JObject(<<Member(<<"q", "u", "e", "r", "i", "e", "s">>, JString("{b}")),
                                  Member(<<"o", "p", "e", "r", "a", "t", "i", "o", "n", "_", "n", "a", "m", "e">>, JString("opB")),
                                  Member(<<"v", "a", "r", "i", "a", "b", "l", "e">>, JObject(<<>>))>>))

\* A Go map: isNil tells the nil map from an empty one, m is its content.
NoEntries == [k \in {} |-> JNull]
NilMap == [isNil |-> TRUE, m |-> NoEntries]
MakeMap == [isNil |-> FALSE, m |-> NoEntries]

\* The members of a JSON object stored into a map, a later key replacing an
\* earlier one.
RECURSIVE StoreMembers(_, _)
StoreMembers(m, members) ==
    IF members = <<>> THEN m
    ELSE LET f == Head(members) IN
         StoreMembers([k \in DOMAIN m \cup {f.k} |-> IF k = f.k THEN f.v ELSE m[k]],
                      Tail(members))

\* json.Unmarshal of one JSON value into a map[string]interface{}: an object
\* fills the map, null makes it nil, any other value is a type error that
\* leaves it alone.
DecodeMap(v, into) ==
    CASE v.t = "object" -> [isNil |-> FALSE, m |-> StoreMembers(into.m, v.m)]
      [] v.t = "null" -> NilMap
      [] OTHER -> into

\* DecodeString with a number accepted as its text.
DecodeString_lenient(v, into) ==
    IF v.t \in {"string", "number"} THEN v.s ELSE into

\* json.Unmarshal of one JSON value into a string: a string is stored, null
\* is a no-op, any other value is a type error that leaves it alone.
DecodeString(v, into) ==
    IF v.t = "string" THEN v.s ELSE into

\* json.Unmarshal(data, &variables) with the error dropped: a text that is
\* not valid JSON changes nothing.
UnmarshalVariables(data, variables) ==
    LET v == JSONSyntax[data] IN
    IF v.t = "invalid" THEN variables ELSE DecodeMap(v, variables)

\* The json tags of the fields of RequestOptions.
TagQuery == <<"q", "u", "e", "r", "y">>
TagVariables == <<"v", "a", "r", "i", "a", "b", "l", "e", "s">>
TagOperationName == <<"o", "p", "e", "r", "a", "t", "i", "o", "n", "N", "a", "m", "e">>

\* The letters, and the two characters outside ASCII that fold to a letter:
\* the long s and the Kelvin sign.
UpperCase == <<"A", "B", "C", "D", "E", "F", "G", "H", "I", "J", "K", "L", "M",
               "N", "O", "P", "Q", "R", "S", "T", "U", "V", "W", "X", "Y", "Z">>
LowerCase == <<"a", "b", "c", "d", "e", "f", "g", "h", "i", "j", "k", "l", "m",
               "n", "o", "p", "q", "r", "s", "t", "u", "v", "w", "x", "y", "z">>
LongS == "U+017F"
KelvinSign == "U+212A"

\* The character every character of the same case-folding class is taken to.
Fold(c) ==
    CASE c = LongS -> "s"
      [] c = KelvinSign -> "k"
      [] \E i \in DOMAIN UpperCase : UpperCase[i] = c ->
            LowerCase[CHOOSE i \in DOMAIN UpperCase : UpperCase[i] = c]
      [] OTHER -> c

\* Equality of two keys under case folding, character by character.
EqualFold(a, b) ==
    /\ Len(a) = Len(b)
    /\ \A i \in DOMAIN a : Fold(a[i]) = Fold(b[i])

\* The field of RequestOptions a JSON key names: the field whose json tag is
\* the key, or else the field whose tag equals it under case folding; ""
\* when there is none.  No two tags are equal under folding, so the exact
\* match and the folded match name the same field.
FieldNamed(key) ==
    CASE EqualFold(key, TagQuery) -> "query"
      [] EqualFold(key, TagVariables) -> "variables"
      [] EqualFold(key, TagOperationName) -> "operationName"
      [] OTHER -> ""

\* The object decoder over the struct RequestOptions: each member goes to the
\* field its key names, unknown keys are skipped, File (json:"-") is never
\* touched, and after a type error the decoder goes on with the next member.
RECURSIVE DecodeFields(_, _)
DecodeFields(o, members) ==
    IF members = <<>> THEN o
    ELSE LET f == Head(members)
             field == FieldNamed(f.k)
         IN DecodeFields(
            CASE field = "query" -> [o EXCEPT !.Query = DecodeString(f.v, @)]
              [] field = "variables" -> [o EXCEPT !.Variables = DecodeMap(f.v, @)]
              [] field = "operationName" -> [o EXCEPT !.OperationName = DecodeString(f.v, @)]
              [] OTHER -> o,
            Tail(members))

\* json.Unmarshal(body, &opts) with the error dropped.
UnmarshalOptions(data, o) ==
    LET v == JSONSyntax[data] IN
    IF v.t = "object" THEN DecodeFields(o, v.m) ELSE o

\* ------------------------------------------------------------- the request

\* url.Values.Get: the first value of the key, "" when there is none.
Get(values, key) ==
    IF key \in DOMAIN values /\ Len(values[key]) > 0 THEN values[key][1] ELSE ""

\* FirstToken with the header value taken whole.
FirstToken_whole(s) == s

\* strings.Split(s, ";")[0]: the atoms before the first ";".
RECURSIVE FirstToken(_)
FirstToken(s) ==
    IF s = <<>> \/ Head(s) = ";" THEN <<>>
    ELSE <<Head(s)>> \o FirstToken(Tail(s))

\* strings.Contains(s, substr), for a substr that is one atom.
Contains(s, substr) ==
    \E i \in 1..Len(s) : s[i] = substr

\* The zero RequestOptions.
EmptyOptions ==
    [Query |-> "", Variables |-> NilMap, OperationName |-> "", File |-> NilMap]

\* The nil *RequestOptions.
Nil == [nil |-> TRUE]

\* getFromForm giving up when the variables do not decode into the map.
getFromForm_strict(values) ==
    LET query == Get(values, "query")
        v == JSONSyntax[Get(values, "variables")]
    IN IF query # "" /\ v.t \in {"object", "null"}
       THEN [Query |-> query,
             Variables |-> DecodeMap(v, MakeMap),
             OperationName |-> Get(values, "operationName"),
             File |-> NilMap]
       ELSE Nil

getFromForm(values) ==
    LET query == Get(values, "query") IN
    IF query # ""
    THEN [Query |-> query,
          Variables |-> UnmarshalVariables(Get(values, "variables"), MakeMap),
          OperationName |-> Get(values, "operationName"),
          File |-> NilMap]
    ELSE Nil

getFromMultipartForm(form) ==
    LET query == Get(form.Value, "query") IN
    IF query # ""
    THEN [Query |-> query,
          Variables |-> UnmarshalVariables(Get(form.Value, "variables"), MakeMap),
          OperationName |-> Get(form.Value, "operationName"),
          File |-> form.File]
    ELSE Nil

\* The switch on the content type of a POST with a body.
FromBody(r) ==
    LET contentType == FirstToken(r.ContentType) IN
    CASE contentType = <<ContentTypeGraphQL>> ->
            IF r.Body.err THEN EmptyOptions
            ELSE [EmptyOptions EXCEPT !.Query = r.Body.data]
      [] contentType = <<ContentTypeFormURLEncoded>> ->
            IF r.PostForm.err THEN EmptyOptions
            ELSE LET reqOpt == getFromForm(r.PostForm.values) IN
                 IF reqOpt # Nil THEN reqOpt ELSE EmptyOptions
      [] contentType = <<ContentTypeMultipartFormData>> ->
            IF r.MultipartForm.err THEN EmptyOptions
            ELSE LET reqOpt == getFromMultipartForm(r.MultipartForm) IN
                 IF reqOpt # Nil THEN reqOpt ELSE EmptyOptions
      [] OTHER ->
            IF r.Body.err THEN EmptyOptions
            ELSE UnmarshalOptions(r.Body.data, EmptyOptions)

\* NewRequestOptions with the body of a POST consulted before the URL.
NewRequestOptions_bodyFirst(r) ==
    LET reqOpt == getFromForm(r.URL)
        fromBody == IF r.Method = MethodPost /\ ~r.Body.isNil
                    THEN FromBody(r) ELSE EmptyOptions
    IN IF fromBody.Query # "" THEN fromBody
       ELSE IF reqOpt # Nil THEN reqOpt
       ELSE fromBody

\* NewRequestOptions without the check of the method.
NewRequestOptions_anyMethod(r) ==
    LET reqOpt == getFromForm(r.URL) IN
    IF reqOpt # Nil THEN reqOpt
    ELSE IF r.Body.isNil THEN EmptyOptions
    ELSE FromBody(r)

NewRequestOptions(r) ==
    LET reqOpt == getFromForm(r.URL) IN
    IF reqOpt # Nil THEN reqOpt
    ELSE IF r.Method # MethodPost THEN EmptyOptions
    ELSE IF r.Body.isNil THEN EmptyOptions
    ELSE FromBody(r)

\* ------------------------------------------------- the requests considered

NoValues == [k \in {} |-> <<>>]

\* url.Values with the given values of the four keys; a key without values is
\* absent.
MakeValues(q, v, o, w) ==
    LET all == [query |-> q, variables |-> v, operationName |-> o, raw |-> w] IN
    [k \in {x \in DOMAIN all : all[x] # <<>>} |-> all[k]]

NoBody == [isNil |-> TRUE, err |-> FALSE, data |-> ""]
UnreadableBody == [isNil |-> FALSE, err |-> TRUE, data |-> ""]
BodyOf(data) == [isNil |-> FALSE, err |-> FALSE, data |-> data]

\* r.ParseForm and r.ParseMultipartForm are not called, or fail.
NoPostForm == [err |-> TRUE, values |-> NoValues]
NoMultipartForm == [err |-> TRUE, Value |-> NoValues, File |-> NilMap]

MakeRequest(method, url, contentType, accept, body, postForm, multipartForm) ==
    [Method |-> method, URL |-> url, ContentType |-> contentType, Accept |-> accept,
     Body |-> body, PostForm |-> postForm, MultipartForm |-> multipartForm]

Methods == {"GET", MethodPost, "PUT"}

URLs ==
    {MakeValues(q, v, o, <<>>) :
        q \in {<<>>, <<"">>, <<"{a}">>, <<"{a}", "{b}">>, <<"", "{a}">>},
        v \in {<<>>, <<"">>, <<VarsX>>, <<VarsCut>>, <<VarsNull>>, <<VarsArray>>, <<VarsString>>},
        o \in {<<>>, <<"opA">>}}

FormValues ==
    {MakeValues(q, v, o, <<>>) :
        q \in {<<>>, <<"">>, <<"{b}">>},
        v \in {<<>>, <<VarsY>>, <<VarsCut>>, <<VarsArray>>},
        o \in {<<>>, <<"opB">>}}

Files == {MakeMap, [isNil |-> FALSE, m |-> [k \in {"upload"} |-> <<"a.txt">>]]}

\* Content types whose body is read as it is.
RawContentTypes ==
    {<<>>,
     <<ContentTypeJSON>>,
     <<ContentTypeJSON, ";", " charset=utf-8">>,
     <<ContentTypeGraphQL>>,
     <<ContentTypeGraphQL, ";", " charset=utf-8">>,
     <<ContentTypeGraphQL, " ", ";", " charset=utf-8">>,
     <<"text/plain">>}

Bodies ==
    {NoBody, UnreadableBody}
    \cup {BodyOf(d) : d \in {"", "{a}", "{b}", BodyFull, BodyQueryOnly, BodyNumberQuery,
                             BodyStringVars, BodyNullFields, BodyCut, BodyEmptyObject,
                             BodyOtherCase, BodyTwoQueries, BodyUnknownKey,
                             BodyMixedCase, BodyOddCase, BodyLongS, BodyNearMiss,
                             VarsArray}}

FormContentTypes ==
    {<<ContentTypeFormURLEncoded>>, <<ContentTypeFormURLEncoded, ";", " charset=utf-8">>}

PostForms == {NoPostForm} \cup {[err |-> FALSE, values |-> v] : v \in FormValues}

MultipartForms ==
    {NoMultipartForm}
    \cup {[err |-> FALSE, Value |-> v, File |-> f] : v \in FormValues, f \in Files}

\* The content type, body and parsed forms of a request.  A multipart body
\* parses only when the header names its boundary.
Payloads ==
    {[ct |-> c, body |-> b, form |-> NoPostForm, multi |-> NoMultipartForm] :
        c \in RawContentTypes, b \in Bodies}
    \cup {[ct |-> c, body |-> BodyOf(""), form |-> f, multi |-> NoMultipartForm] :
        c \in FormContentTypes, f \in PostForms}
    \cup {[ct |-> <<ContentTypeMultipartFormData, ";", " boundary=B">>,
           body |-> BodyOf(""), form |-> NoPostForm, multi |-> m] : m \in MultipartForms}
    \cup {[ct |-> <<ContentTypeMultipartFormData>>,
           body |-> BodyOf(""), form |-> NoPostForm, multi |-> NoMultipartForm]}

Requests ==
    {MakeRequest(m, u, p.ct, <<>>, p.body, p.form, p.multi) :
        m \in Methods, u \in URLs, p \in Payloads}

\* ------------------------------------- NewRequestOptions on its own

Idle == [busy |-> FALSE]

\* A Go string as the machine holds it: the bytes it points to and its
\* length, each named by the string it comes from.  A string read whole has
\* both from the same string.
StringOf(str) == [data |-> str, len |-> str]

InitResolve ==
    /\ Title = StringOf(DefaultTitle)
    /\ handlers = <<>>
    /\ served = Idle
    /\ panicked = FALSE
    /\ request \in Requests
    /\ resolved = Nil

Resolve ==
    /\ resolved = Nil
    /\ resolved' = NewRequestOptions(request)
    /\ UNCHANGED <<Title, handlers, served, panicked, request>>

NextResolve == Resolve

SpecResolve == InitResolve /\ [][NextResolve]_vars

\* ------------------------------------------------------ the execution engine

Causes == {"e1", "e2"}

ErrorMessage(cause) == IF cause = "e1" THEN "m1" ELSE "m2"

\* An error as the engine reports it: its message, and the error it wraps.
EngineError(cause) ==
    [Message |-> ErrorMessage(cause), Extensions |-> "", originalError |-> cause]

\* The error lists the engine may report.
ErrorLists ==
    UNION {[1..n -> {EngineError(c) : c \in Causes}] : n \in 0..MaxErrors}

\* graphql.Do(params): the engine's result, with the errors it reports on
\* this call; there is data when there is no error.
Do(params, errors) ==
    [Data |-> IF errors = <<>> THEN "data" ELSE "null", Errors |-> errors]

\* The configured FormatErrorFn, applied to the cause of an error.
formatErrorFn(err) ==
    [Message |-> err, Extensions |-> "formatted", originalError |-> err]

\* ------------------------------------------------------------- the handler

NilSchema == "nil"
TheSchema == "schema"

NewConfig ==
    [Title |-> "", Schema |-> NilSchema, Pretty |-> TRUE, GraphiQL |-> TRUE,
     RootObjectFn |-> FALSE, ResultCallbackFn |-> FALSE, FormatErrorFn |-> FALSE]

\* The bytes of a response: a JSON document with its indentation, or the
\* console page with the title the template was given.
JSONBytes(indent, result) ==
    [kind |-> "json", indent |-> indent, title |-> StringOf(""), result |-> result]
PageBytes(title) ==
    [kind |-> "html", indent |-> "", title |-> title,
     result |-> [Data |-> "null", Errors |-> <<>>]]

\* The http.ResponseWriter before anything is written.
NewResponseWriter == [header |-> <<>>, status |-> 0, body |-> <<>>]

\* w.Write: the first write sends the status 200 if none was sent.
Write(w, bytes) ==
    [w EXCEPT !.status = IF @ = 0 THEN 200 ELSE @, !.body = Append(@, bytes)]

\* The graphql.Params of a request.
Params(h, opts) ==
    [Schema |-> h.Schema,
     RequestString |-> opts.Query,
     VariableValues |-> opts.Variables,
     OperationName |-> opts.OperationName,
     RootObject |-> IF h.rootObjectFn THEN "root" ELSE "nil"]

\* FormatErrors filling the formatted list from its end.
FormatErrors_reversed(h, result) ==
    IF h.formatErrorFn /\ Len(result.Errors) > 0
    THEN [result EXCEPT !.Errors =
            [i \in 1..Len(result.Errors) |->
                formatErrorFn(result.Errors[Len(result.Errors) + 1 - i].originalError)]]
    ELSE result

\* The error formatter over the engine's result.
FormatErrors(h, result) ==
    IF h.formatErrorFn /\ Len(result.Errors) > 0
    THEN [result EXCEPT !.Errors =
            [i \in 1..Len(result.Errors) |-> formatErrorFn(result.Errors[i].originalError)]]
    ELSE result

\* ServeConsole with `raw` read by its value.
ServeConsole_rawValue(h, r) ==
    /\ h.graphiql
    /\ Get(r.URL, "raw") = ""
    /\ ~Contains(r.Accept, "application/json")
    /\ Contains(r.Accept, "text/html")

\* Whether the console page is rendered in place of the JSON result.
ServeConsole(h, r) ==
    /\ h.graphiql
    /\ ~("raw" \in DOMAIN r.URL)
    /\ ~Contains(r.Accept, "application/json")
    /\ Contains(r.Accept, "text/html")

\* renderGraphiQL: the constant template parses and the decoded variables
\* marshal, so neither http.Error is reached; a request string that is not
\* empty is executed once more and the result, taken to marshal, is dropped;
\* the page is written with the package-level Title.
renderGraphiQL(w, params, title) ==
    [w |-> Write(w, PageBytes(title)),
     calls |-> (IF params.RequestString # "" THEN <<"graphql.Do">> ELSE <<>>)
               \o <<"w.Write">>,
     callback |-> <<>>]

\* json.MarshalIndent(result, "", "\t") or json.Marshal(result).
Marshal(h, result) ==
    IF h.pretty THEN JSONBytes("\t", result) ELSE JSONBytes("", result)

\* ResultCallback handing over a compact serialization of its own.
ResultCallback_remarshal(h, params, result, buff) ==
    IF h.resultCallbackFn
    THEN <<[params |-> params, result |-> result, responseBody |-> JSONBytes("", result)]>>
    ELSE <<>>

\* The call of the result callback, if there is one.
ResultCallback(h, params, result, buff) ==
    IF h.resultCallbackFn
    THEN <<[params |-> params, result |-> result, responseBody |-> buff]>>
    ELSE <<>>

\* The JSON branch of ContextHandler.
renderJSON(w, h, params, result) ==
    LET buff == Marshal(h, result) IN
    [w |-> Write([w EXCEPT !.header = Append(@, "application/json; charset=utf-8"),
                           !.status = 200],
                 buff),
     calls |-> <<"w.WriteHeader", "w.Write">>
               \o (IF h.resultCallbackFn THEN <<"resultCallbackFn">> ELSE <<>>),
     callback |-> ResultCallback(h, params, result, buff)]

\* ContextHandler up to the call of the engine: the options are resolved,
\* the parameters built and the root object hook called.
Enter(h, r) ==
    LET opts == NewRequestOptions(r)
        params == Params(h, opts)
    IN [busy |-> TRUE, pc |-> "execute", r |-> r, opts |-> opts, params |-> params,
        engine |-> Nil, result |-> Nil,
        w |-> NewResponseWriter,
        calls |-> IF h.rootObjectFn THEN <<"rootObjectFn">> ELSE <<>>,
        callback |-> <<>>]

\* The call of the engine, which reports the given errors, and the error
\* formatter.
Executed(s, h, errors) ==
    LET engine == Do(s.params, errors) IN
    [s EXCEPT !.pc = "render",
              !.engine = engine,
              !.result = FormatErrors(h, engine),
              !.calls = @ \o <<"graphql.Do">>
                          \o (IF h.formatErrorFn /\ Len(engine.Errors) > 0
                              THEN [i \in 1..Len(engine.Errors) |-> "formatErrorFn"]
                              ELSE <<>>)]

\* The rest of ContextHandler: the console page, for which title is what the
\* read of Title gave, or the JSON response and the result callback.
Responded(s, h, title) ==
    LET out == IF ServeConsole(h, s.r)
               THEN renderGraphiQL(s.w, s.params, title)
               ELSE renderJSON(s.w, h, s.params, s.result)
    IN [s EXCEPT !.pc = "done", !.w = out.w, !.calls = @ \o out.calls,
                 !.callback = out.callback]

\* A whole call of ContextHandler that nothing interleaves with.
Handle(h, r, errors, title) ==
    Responded(Executed(Enter(h, r), h, errors), h, title)

\* What two unsynchronised accesses to Title may leave or give, old and new
\* being the two strings involved: either string, or the bytes of one with
\* the length of the other.
Racing(old, new) ==
    {[data |-> d, len |-> l] : d \in {old.data, new.data}, l \in {old.len, new.len}}

\* The configurations handlers are constructed from.
Titles == {"", "My API", "Docs"}

Configs ==
    {[Title |-> t, Schema |-> TheSchema, Pretty |-> c[2], GraphiQL |-> c[1],
      RootObjectFn |-> c[3], ResultCallbackFn |-> c[3], FormatErrorFn |-> c[3]] :
        t \in Titles,
        c \in {<<TRUE, TRUE, TRUE>>, <<TRUE, FALSE, FALSE>>,
               <<FALSE, TRUE, FALSE>>, <<FALSE, FALSE, TRUE>>}}
    \cup {Nil, [NewConfig EXCEPT !.Title = "My API"]}

\* The requests served.
ServedRequests ==
    {MakeRequest(p[1], MakeValues(q, <<>>, <<>>, w), <<ContentTypeJSON>>, a,
                 p[2], NoPostForm, NoMultipartForm) :
        p \in {<<"GET", NoBody>>, <<MethodPost, BodyOf(BodyFull)>>},
        q \in {<<>>, <<"{a}">>},
        w \in {<<>>, <<"">>},
        a \in {<<>>, <<"text/html">>,
               <<"text/html", ",", "application/xhtml+xml", ",", "application/json">>,
               <<"application/json", "-patch+json", ",", "text/html">>}}

Init ==
    /\ Title = StringOf(DefaultTitle)
    /\ handlers = <<>>
    /\ served = Idle
    /\ panicked = FALSE
    /\ request = Nil
    /\ resolved = Nil

\* The handler New returns for the configuration p.
NewHandler(p) ==
    [Schema |-> p.Schema, pretty |-> p.Pretty, graphiql |-> p.GraphiQL,
     rootObjectFn |-> p.RootObjectFn,
     resultCallbackFn |-> p.ResultCallbackFn,
     formatErrorFn |-> p.FormatErrorFn]

\* New(p), at any moment, a request being served or not: a nil configuration
\* is replaced by NewConfig(); without a schema New panics, and the caller
\* recovers or the process ends; a title that is not empty is stored in the
\* package-level Title.
New(p0) ==
    LET p == IF p0 = Nil THEN NewConfig ELSE p0 IN
    /\ ~panicked
    /\ Len(handlers) < MaxHandlers
    /\ IF p.Schema = NilSchema
       THEN /\ panicked' \in BOOLEAN
            /\ UNCHANGED <<Title, handlers>>
       ELSE /\ Title' = IF p.Title # "" THEN StringOf(p.Title) ELSE Title
            /\ handlers' = Append(handlers, NewHandler(p))
            /\ UNCHANGED panicked
    /\ UNCHANGED <<served, request, resolved>>

\* New(p) and New(q) on two goroutines, each storing its title: the two
\* stores race.
NewDuringNew(p, q) ==
    /\ ~panicked
    /\ Len(handlers) + 2 <= MaxHandlers
    /\ p # Nil /\ q # Nil
    /\ p.Schema # NilSchema /\ q.Schema # NilSchema
    /\ p.Title # "" /\ q.Title # ""
    /\ Title' \in Racing(StringOf(p.Title), StringOf(q.Title))
    /\ handlers' = handlers \o <<NewHandler(p), NewHandler(q)>>
    /\ UNCHANGED <<served, panicked, request, resolved>>

\* h.ContextHandler(ctx, w, r) is entered on the i-th handler and runs up to
\* the call of the engine.
ContextHandler(i, r) ==
    /\ ~panicked
    /\ ~served.busy
    /\ i \in DOMAIN handlers
    /\ served' = Enter(handlers[i], r) @@ [h |-> i]
    /\ UNCHANGED <<Title, handlers, panicked, request, resolved>>

\* The engine runs and its errors are formatted; it rejects an empty query.
Execute(errors) ==
    /\ ~panicked
    /\ served.busy
    /\ served.pc = "execute"
    /\ served.params.RequestString = "" => errors # <<>>
    /\ served' = Executed(served, handlers[served.h], errors)
    /\ UNCHANGED <<Title, handlers, panicked, request, resolved>>

\* The response is rendered, the console page with Title as it is now.
Respond ==
    /\ ~panicked
    /\ served.busy
    /\ served.pc = "render"
    /\ served' = Responded(served, handlers[served.h], Title)
    /\ UNCHANGED <<Title, handlers, panicked, request, resolved>>

\* The console page is rendered while New(p), on another goroutine, stores
\* its title: the read of Title and the store race.
RespondDuringNew(p) ==
    /\ ~panicked
    /\ served.busy
    /\ served.pc = "render"
    /\ ServeConsole(handlers[served.h], served.r)
    /\ Len(handlers) < MaxHandlers
    /\ p # Nil
    /\ p.Schema # NilSchema
    /\ p.Title # ""
    /\ \E title \in Racing(Title, StringOf(p.Title)) :
            served' = Responded(served, handlers[served.h], title)
    /\ Title' = StringOf(p.Title)
    /\ handlers' = Append(handlers, NewHandler(p))
    /\ UNCHANGED <<panicked, request, resolved>>

\* ContextHandler has returned and ServeHTTP returns: the response is
\* complete and the request's objects are gone.
ServeHTTP ==
    /\ ~panicked
    /\ served.busy
    /\ served.pc = "done"
    /\ served' = Idle
    /\ UNCHANGED <<Title, handlers, panicked, request, resolved>>

Next ==
    \/ \E p \in Configs : New(p)
    \/ \E p, q \in Configs : NewDuringNew(p, q)
    \/ \E i \in 1..MaxHandlers, r \in ServedRequests : ContextHandler(i, r)
    \/ \E errors \in ErrorLists : Execute(errors)
    \/ Respond
    \/ \E p \in Configs : RespondDuringNew(p)
    \/ ServeHTTP

Spec == Init /\ [][Next]_vars

\* ------------------------------------------- claims on NewRequestOptions

\* The first value of a key of the URL's query string, "" without one.
URLParam(key) ==
    IF key \in DOMAIN request.URL THEN request.URL[key][1] ELSE ""

\* The map each `variables` text stands for; an empty map for a text that is
\* not a JSON object.
VariablesOf(text) ==
    CASE text = VarsX -> [isNil |-> FALSE, m |-> [k \in {<<"x">>} |-> JNumber("1")]]
      [] text = VarsY -> [isNil |-> FALSE, m |-> [k \in {<<"y">>} |-> JString("two")]]
      [] text = VarsNull -> NilMap
      [] OTHER -> MakeMap

\* The media type of the request: the Content-Type up to its first ";".
MediaTypeIs(mediaType) ==
    /\ request.ContentType # <<>>
    /\ request.ContentType[1] = mediaType
    /\ Len(request.ContentType) > 1 => request.ContentType[2] = ";"

\* A POST with a body and no usable `query` in the URL.
PostWithBody ==
    /\ URLParam("query") = ""
    /\ request.Method = MethodPost
    /\ ~request.Body.isNil

\* C1: whenever the URL's query string carries a non-empty `query`, the query,
\* the operation name and the variables of the resolved record are those of
\* the URL, whatever the method, the content type and the body are.
C1_URLQueryWins ==
    (resolved # Nil /\ URLParam("query") # "") =>
        /\ resolved.Query = URLParam("query")
        /\ resolved.OperationName = URLParam("operationName")
        /\ resolved.Variables = VariablesOf(URLParam("variables"))
        /\ resolved.File = NilMap

\* A POST of a JSON body with another query, resolved from the URL.
C1_Witness ==
    /\ resolved # Nil
    /\ request.Method = MethodPost
    /\ request.ContentType = <<ContentTypeJSON>>
    /\ request.Body = BodyOf(BodyFull)
    /\ URLParam("variables") = VarsX
    /\ resolved.Query = "{a}"
    /\ resolved.OperationName = "opA"
    /\ DOMAIN resolved.Variables.m = {<<"x">>}

\* C7: for a POST without a usable URL query whose media type is exactly
\* application/graphql, the query is the whole body and the variables, the
\* operation name and the files are empty; a body that cannot be read gives
\* the empty record.
C7_GraphQLBodyIsQuery ==
    (resolved # Nil /\ PostWithBody /\ MediaTypeIs(ContentTypeGraphQL)) =>
        IF request.Body.err
        THEN resolved = EmptyOptions
        ELSE resolved = [EmptyOptions EXCEPT !.Query = request.Body.data]

\* An application/graphql body under a Content-Type with a parameter.
C7_Witness ==
    /\ resolved # Nil
    /\ PostWithBody
    /\ request.ContentType = <<ContentTypeGraphQL, ";", " charset=utf-8">>
    /\ request.Body = BodyOf("{b}")
    /\ resolved.Query = "{b}"
    /\ resolved.Variables = NilMap

\* The form values the options are extracted from, if any.
FormSource ==
    IF URLParam("query") # "" THEN request.URL
    ELSE IF PostWithBody /\ MediaTypeIs(ContentTypeFormURLEncoded) /\ ~request.PostForm.err
    THEN request.PostForm.values
    ELSE IF PostWithBody /\ MediaTypeIs(ContentTypeMultipartFormData)
            /\ ~request.MultipartForm.err
    THEN request.MultipartForm.Value
    ELSE NoValues

\* C8: options extracted from form values with a non-empty `query` and a
\* `variables` field that is absent, empty or not a JSON object carry the
\* form's query and operation name and an empty variables mapping.
C8_BadVariablesAreEmpty ==
    (/\ resolved # Nil
     /\ Get(FormSource, "query") # ""
     /\ JSONSyntax[Get(FormSource, "variables")].t # "object") =>
        /\ resolved.Query = Get(FormSource, "query")
        /\ resolved.OperationName = Get(FormSource, "operationName")
        /\ DOMAIN resolved.Variables.m = {}

\* A multipart POST with a truncated `variables` field and an upload.
C8_Witness ==
    /\ resolved # Nil
    /\ PostWithBody
    /\ MediaTypeIs(ContentTypeMultipartFormData)
    /\ ~request.MultipartForm.err
    /\ Get(request.MultipartForm.Value, "variables") = VarsCut
    /\ resolved.Query = "{b}"
    /\ resolved.OperationName = "opB"
    /\ resolved.Variables = MakeMap
    /\ DOMAIN resolved.File.m = {"upload"}

\* C9: without a usable `query` in the URL, a request that is not a POST, or
\* that has no body, resolves to the empty record, whatever its Content-Type
\* and its other URL parameters are.
C9_NoBodyNoOptions ==
    (/\ resolved # Nil
     /\ URLParam("query") = ""
     /\ (request.Method # MethodPost \/ request.Body.isNil)) =>
        resolved = EmptyOptions

\* A GET with `variables` and `operationName` in the URL and a JSON body.
C9_Witness ==
    /\ resolved # Nil
    /\ request.Method = "GET"
    /\ "query" \notin DOMAIN request.URL
    /\ URLParam("variables") = VarsX
    /\ URLParam("operationName") = "opA"
    /\ request.ContentType = <<ContentTypeJSON>>
    /\ request.Body = BodyOf(BodyFull)
    /\ resolved = EmptyOptions

\* A POST whose body is decoded as JSON: no usable URL query, and a media type
\* that is none of the three handled otherwise.
JSONBranch ==
    /\ PostWithBody
    /\ ~MediaTypeIs(ContentTypeGraphQL)
    /\ ~MediaTypeIs(ContentTypeFormURLEncoded)
    /\ ~MediaTypeIs(ContentTypeMultipartFormData)

\* The syntax tree of the body.
BodySyntax == JSONSyntax[request.Body.data]

\* The key with every letter in lower case, the long s as s and the Kelvin
\* sign as k.
Lowered(key) ==
    [i \in DOMAIN key |->
        CASE key[i] = LongS -> "s"
          [] key[i] = KelvinSign -> "k"
          [] OTHER ->
                LET at == {j \in DOMAIN UpperCase : UpperCase[j] = key[i]} IN
                IF at = {} THEN key[i] ELSE LowerCase[CHOOSE j \in at : TRUE]]

\* The key is one of the field's names: the field's json tag up to the case
\* of the letters.
Names(key, tag) == Lowered(key) = Lowered(tag)

\* A member of the body that cannot be stored into the field it names.
WrongType(f) ==
    \/ \E tag \in {TagQuery, TagOperationName} :
            Names(f.k, tag) /\ f.v.t \notin {"string", "null"}
    \/ Names(f.k, TagVariables) /\ f.v.t \notin {"object", "null"}

\* json.Unmarshal of the body reports an error, or the body cannot be read.
DecodeFails ==
    \/ request.Body.err
    \/ BodySyntax.t \in {"invalid", "array", "string", "number"}
    \/ BodySyntax.t = "object"
        /\ \E i \in DOMAIN BodySyntax.m : WrongType(BodySyntax.m[i])

\* The members of the body that name the given field and have the given kind
\* of value.
MembersOf(tag, kind) ==
    {i \in DOMAIN BodySyntax.m :
        Names(BodySyntax.m[i].k, tag) /\ BodySyntax.m[i].v.t = kind}

\* The text of the string member of the body with the given key, "" without.
StringField(tag) ==
    LET at == MembersOf(tag, "string") IN
    IF at = {} THEN ""
    ELSE BodySyntax.m[CHOOSE i \in at : \A j \in at : j <= i].v.s

\* The `variables` object of the body as a map, the nil map without.
VariablesField ==
    IF MembersOf(TagVariables, "object") = {} THEN NilMap
    ELSE LET o == BodySyntax.m[CHOOSE i \in MembersOf(TagVariables, "object") : TRUE].v.m
         IN [isNil |-> FALSE,
             m |-> [k \in {o[i].k : i \in DOMAIN o} |->
                        (o[CHOOSE i \in DOMAIN o : o[i].k = k]).v]]

\* C10 as stated: a body that fails to decode leaves the query, the variables
\* and the operation name all at their zero values.
C10_FailedDecodeIsEmpty ==
    (resolved # Nil /\ JSONBranch /\ DecodeFails) =>
        /\ resolved.Query = ""
        /\ resolved.Variables = NilMap
        /\ resolved.OperationName = ""

\* C10 amended: a body that cannot be read, is not valid JSON or is not a JSON
\* object leaves the three fields at their zero values; in a JSON object, a
\* member of the wrong type is skipped and every well-typed member is stored
\* in the field its key names, the case of the letters ignored.
C10_FailedDecodeKeepsTypedFields ==
    (resolved # Nil /\ JSONBranch /\ DecodeFails) =>
        IF request.Body.err \/ BodySyntax.t # "object"
        THEN resolved = EmptyOptions
        ELSE /\ resolved.Query = StringField(TagQuery)
             /\ resolved.OperationName = StringField(TagOperationName)
             /\ resolved.Variables = VariablesField
             /\ resolved.File = NilMap

\* A body with a number for `query`: the query stays empty, the operation
\* name is stored.
C10_Witness ==
    /\ resolved # Nil
    /\ JSONBranch
    /\ request.Body = BodyOf(BodyNumberQuery)
    /\ DecodeFails
    /\ resolved.Query = ""
    /\ resolved.OperationName = "opB"

\* --------------------------------------------- claims on ContextHandler

\* ContextHandler has returned for the request being served.
Served == served.busy /\ served.pc = "done"

\* The handler of the request being served.
ServingHandler == handlers[served.h]

\* The four conditions of the console page, on the request being served.
ConsoleConditions ==
    LET accept == {served.r.Accept[i] : i \in DOMAIN served.r.Accept} IN
    /\ ServingHandler.graphiql
    /\ "raw" \notin DOMAIN served.r.URL
    /\ "application/json" \notin accept
    /\ "text/html" \in accept

\* The response is the console page and nothing else.
ConsolePageServed ==
    /\ Len(served.w.body) = 1
    /\ served.w.body[1].kind = "html"

\* The response is the JSON serialization of the result and nothing else.
JSONServed ==
    /\ Len(served.w.body) = 1
    /\ served.w.body[1].kind = "json"
    /\ served.w.body[1].result = served.result
    /\ served.w.header = <<"application/json; charset=utf-8">>
    /\ served.w.status = 200

\* The positions of a call among the calls made for the request.
CallsOf(name) == {i \in DOMAIN served.calls : served.calls[i] = name}

\* C2: the console page is rendered exactly when the console is enabled, the
\* URL has no `raw` key, and the Accept header contains text/html and not
\* application/json; otherwise the response is the JSON of the result.
C2_ConsoleDecision ==
    Served =>
        IF ConsoleConditions THEN ConsolePageServed ELSE JSONServed

\* A browser request with an empty `raw` key on a console-enabled handler,
\* answered with JSON.
C2_Witness ==
    /\ Served
    /\ ServingHandler.graphiql
    /\ served.r.Accept = <<"text/html">>
    /\ "raw" \in DOMAIN served.r.URL
    /\ served.r.URL["raw"] = <<"">>
    /\ JSONServed

\* The callback was invoked once, after the response was written, with the
\* bytes of the response.
CallbackGotResponse ==
    /\ Len(served.callback) = 1
    /\ Cardinality(CallsOf("resultCallbackFn")) = 1
    /\ \A i \in CallsOf("resultCallbackFn"), j \in CallsOf("w.Write") : j < i
    /\ served.w.body = <<served.callback[1].responseBody>>

\* C3 as stated: with a result callback configured, every request has the
\* callback invoked exactly once, after the response, with the bytes written.
C3_CallbackOnEveryRequest ==
    (Served /\ ServingHandler.resultCallbackFn) => CallbackGotResponse

\* C3 amended: with a result callback configured, a request answered with JSON
\* has the callback invoked exactly once, after the response, with the bytes
\* written; a request answered with the console page has no callback.
C3_CallbackOnJSON ==
    (Served /\ ServingHandler.resultCallbackFn) =>
        IF ConsoleConditions
        THEN served.callback = <<>> /\ CallsOf("resultCallbackFn") = {}
        ELSE CallbackGotResponse

\* An indented JSON response handed to the callback.
C3_Witness ==
    /\ Served
    /\ ServingHandler.resultCallbackFn
    /\ ServingHandler.pretty
    /\ ~ConsoleConditions
    /\ Len(served.callback) = 1
    /\ served.callback[1].responseBody.indent = "\t"
    /\ served.w.body = <<served.callback[1].responseBody>>

\* C4: handling one request invokes the engine exactly once.
C4_EngineCalledOnce ==
    Served => Cardinality(CallsOf("graphql.Do")) = 1

\* What the i-th handler answers to the request r in a call nothing
\* interleaves with, the engine reporting one error.
Answer(i, r) == Handle(handlers[i], r, <<EngineError("e1")>>, Title).w

\* C5: no operation changes what an already constructed handler answers to a
\* request.
C5_HandlerKeepsItsConfiguration ==
    [][\A i \in DOMAIN handlers, r \in ServedRequests : Answer(i, r)' = Answer(i, r)]_vars

\* The errors serialized in the response.
SerializedErrors == served.w.body[1].result.Errors

\* C6: with a formatter and N >= 1 engine errors, the serialized result has N
\* errors, the i-th being the formatter's output for the cause of the engine's
\* i-th error; otherwise the engine's errors are serialized unchanged.
C6_ErrorsFormattedInOrder ==
    (Served /\ ~ConsoleConditions) =>
        LET reported == served.engine.Errors IN
        IF ServingHandler.formatErrorFn /\ Len(reported) >= 1
        THEN /\ Len(SerializedErrors) = Len(reported)
             /\ \A i \in DOMAIN reported :
                    SerializedErrors[i] = formatErrorFn(reported[i].originalError)
        ELSE SerializedErrors = reported

\* Two errors with different causes, formatted and serialized in order.
C6_Witness ==
    /\ Served
    /\ ~ConsoleConditions
    /\ ServingHandler.formatErrorFn
    /\ Len(served.engine.Errors) = 2
    /\ served.engine.Errors[1].originalError = "e1"
    /\ served.engine.Errors[2].originalError = "e2"
    /\ SerializedErrors = <<formatErrorFn("e1"), formatErrorFn("e2")>>

====
